---- MODULE Spec2Model ----
(***************************************************************************)
(* nagashi-somen: DatabaseMonitor (src/src/nagashi_somen/core.py).         *)
(*                                                                         *)
(* The controller thread runs start() -> check_mysql_configuration() ->    *)
(* _load_table_schemas() -> _monitor().  A second execution context may    *)
(* call stop_recording() once.  The operator may send one interrupt        *)
(* (KeyboardInterrupt) while the controller is inside the try block of     *)
(* _monitor().                                                             *)
(*                                                                         *)
(* Python dicts keep insertion order, so a dict is modelled as a sequence  *)
(* of entries [k |-> key, v |-> value].  A record (the dict built by       *)
(* dict(zip(columns, values))) is a function from column names to values.  *)
(*                                                                         *)
(* Spec is the whole controller with the other context and the interrupt.  *)
(* SpecFold is a started monitor that applies whole events in sequence     *)
(* and keeps their history.                                                *)
(***************************************************************************)
EXTENDS Integers, Sequences, FiniteSets, TLC

VARIABLES
    pc,             \* position of the controller thread
    recording,      \* self.recording
    table_records,  \* self.table_records: dict table -> dict pk -> record
    table_schemas,  \* self.table_schemas: function table -> column names
    files,          \* output_dir: table -> content of <table>.json
    stream,         \* local `stream` of _monitor: "none", "open", "closed"
    event,          \* the binlog event bound by the for loop (its type, table and
                    \* number of rows), or NoEvent
    rowIdx,         \* rows of `event` the row loop has gone through
    it,             \* per thread: the state of save_changes' for loop
    pc2,            \* position of the other context calling stop_recording
    pending,        \* exception propagating out of _monitor, or "none"
    exitPath,       \* how the controller left the try body, or "none"
    preflight,      \* result of check_mysql_configuration
    loadIdx,        \* tables of the schema query gone through
    sigint,         \* whether the operator's interrupt has been delivered
    flushes,        \* calls of save_changes so far
    pulled,         \* events pulled from the stream so far
    exitStatus,     \* process exit status, or Running
    hist,           \* events applied so far (fold specification)
    prevStore       \* table_records before the last applied event

vars == <<pc, recording, table_records, table_schemas, files, stream, event,
          rowIdx, it, pc2, pending, exitPath, preflight, loadIdx, sigint,
          flushes, pulled, exitStatus, hist, prevStore>>

----------------------------------------------------------------------------
(* Bounds *)

MaxEvents == 2      \* events the stream delivers in one run
MaxRows == 2        \* rows in one event
MaxHist == 3        \* rows applied in one run of the fold specification

----------------------------------------------------------------------------
(* Values *)

None == "None"
Dt == "datetime:t1"         \* a datetime object
DtIso == "iso:t1"           \* its isoformat() string

Threads == {"main", "other"}
DbTables == <<"t1", "t2">>  \* rows of the INFORMATION_SCHEMA.TABLES query
Tables == {"t1", "t2"}
DbColumns(t) == <<"id", "v">>
KeyIds == {"1", "2"}
Ids == KeyIds \cup {None}
Vs == {"a", Dt}

EventTypes == {"WriteRowsEvent", "UpdateRowsEvent", "DeleteRowsEvent"}

\* The positional values of a row image (row["values"].values(), ...)
Rows == {<<i, v>> : i \in Ids, v \in Vs}
KeyedRows == {<<i, v>> : i \in KeyIds, v \in Vs}

\* A row of an event: "values" for an insert or a delete, "before_values"
\* and "after_values" for an update (an image the row lacks is <<>>)
WriteRow(vals) == [values |-> vals, before_values |-> <<>>, after_values |-> <<>>]
UpdateRow(before, after) == [values |-> <<>>, before_values |-> before, after_values |-> after]

\* The before images of the update rows of the run loop: the row had a key
BeforeImages == {<<i, "a">> : i \in KeyIds}

\* The rows an event of this type can carry in the run loop
StreamRows(type) ==
    IF type = "UpdateRowsEvent" THEN {UpdateRow(b, a) : b \in BeforeImages, a \in Rows}
    ELSE {WriteRow(x) : x \in Rows}

\* The rows of the events of a history: keyed, and an update row carries
\* its after image as before image too
HistRows(type) ==
    IF type = "UpdateRowsEvent" THEN {UpdateRow(a, a) : a \in KeyedRows}
    ELSE {WriteRow(x) : x \in KeyedRows}

\* An event with its n rows
EventsOfLen(n) ==
    UNION {[type : {ty}, table : Tables, rows : [1..n -> HistRows(ty)]] : ty \in EventTypes}

\* An event as the run loop holds it.  The row loop reads the rows one by
\* one and nothing else reads them, so each row is drawn when it is read.
StreamEvents == [type : EventTypes, table : Tables, nrows : 1..MaxRows]

NoEvent == [type |-> "none", table |-> "none", nrows |-> 0]

----------------------------------------------------------------------------
(* Python dict, insertion ordered *)

DictKeys(d) == {d[i].k : i \in 1..Len(d)}

DictIndex(d, k) == CHOOSE i \in 1..Len(d) : d[i].k = k

\* d.get(k, default)
DictGet(d, k, default) == IF k \in DictKeys(d) THEN d[DictIndex(d, k)].v ELSE default

\* d[k] = v : replaces in place, or appends a new entry
DictSet(d, k, v) ==
    IF k \in DictKeys(d)
    THEN [d EXCEPT ![DictIndex(d, k)] = [k |-> k, v |-> v]]
    ELSE Append(d, [k |-> k, v |-> v])

\* d.pop(k, None)
DictPopLastMut(d, k) ==
    IF k \in DictKeys(d)
    THEN LET j == DictIndex(d, k) IN [i \in 1..(Len(d) - 1) |-> IF i < j THEN d[i] ELSE d[i + 1]]
    ELSE SubSeq(d, 1, Len(d) - 1)

DictPop(d, k) ==
    IF k \in DictKeys(d)
    THEN LET j == DictIndex(d, k) IN [i \in 1..(Len(d) - 1) |-> IF i < j THEN d[i] ELSE d[i + 1]]
    ELSE d

\* d.setdefault(k, {})
DictSetDefaultNoopMut(d, k) == d

DictSetDefaultResetMut(d, k) ==
    IF k \in DictKeys(d) THEN d ELSE <<[k |-> k, v |-> <<>>]>>

DictSetDefault(d, k) == IF k \in DictKeys(d) THEN d ELSE Append(d, [k |-> k, v |-> <<>>])

\* list(d.values())
DictValues(d) == [i \in 1..Len(d) |-> d[i].v]

----------------------------------------------------------------------------
(* handle_event *)

Min(a, b) == IF a < b THEN a ELSE b

\* dict(zip(columns, values)): pairs up to the shorter length, a later
\* duplicate column overwrites an earlier one.
Zip(columns, values) ==
    LET n == Min(Len(columns), Len(values))
    IN  [c \in {columns[i] : i \in 1..n} |->
            values[CHOOSE i \in 1..n : columns[i] = c /\ \A j \in (i + 1)..n : columns[j] # c]]

\* row.get("id")
get_primary_key(row) == IF "id" \in DOMAIN row THEN row["id"] ELSE None

\* self.table_schemas.get(table, [])
ColumnsOfDefaultIdMut(schemas, table) ==
    IF table \in DOMAIN schemas THEN schemas[table] ELSE <<"id">>

ColumnsOf(schemas, table) == IF table \in DOMAIN schemas THEN schemas[table] ELSE <<>>

\* The image a row loop reads: row["after_values"] in the update loop,
\* row["values"] in the insert and delete loops
RowValues(type, row) == IF type = "UpdateRowsEvent" THEN row.after_values ELSE row.values

\* One iteration of a row loop of handle_event on the store `recs`.
ApplyRowNoCheckMut(recs, columns, type, table, row) ==
    LET values == Zip(columns, RowValues(type, row))
        pk == get_primary_key(values)
        tbl == DictGet(recs, table, <<>>)
    IN  IF type = "DeleteRowsEvent" THEN DictSet(recs, table, DictPop(tbl, pk))
        ELSE DictSet(recs, table, DictSet(tbl, pk, values))

ApplyRowKeepFirstMut(recs, columns, type, table, row) ==
    LET values == Zip(columns, RowValues(type, row))
        pk == get_primary_key(values)
        tbl == DictGet(recs, table, <<>>)
    IN  IF pk = None THEN recs
        ELSE IF type = "DeleteRowsEvent" THEN DictSet(recs, table, DictPop(tbl, pk))
        ELSE IF pk \in DictKeys(tbl) THEN recs
        ELSE DictSet(recs, table, DictSet(tbl, pk, values))

ApplyRowFirstValueKeyMut(recs, columns, type, table, row) ==
    LET values == Zip(columns, RowValues(type, row))
        pk == RowValues(type, row)[1]
        tbl == DictGet(recs, table, <<>>)
    IN  IF pk = None THEN recs
        ELSE IF type = "DeleteRowsEvent" THEN DictSet(recs, table, DictPop(tbl, pk))
        ELSE DictSet(recs, table, DictSet(tbl, pk, values))

ApplyRowMoveOnUpdateMut(recs, columns, type, table, row) ==
    LET values == Zip(columns, RowValues(type, row))
        pk == get_primary_key(values)
        old == get_primary_key(Zip(columns, row.before_values))
        tbl == DictGet(recs, table, <<>>)
    IN  IF pk = None THEN recs
        ELSE IF type = "DeleteRowsEvent" THEN DictSet(recs, table, DictPop(tbl, pk))
        ELSE IF type = "UpdateRowsEvent"
             THEN DictSet(recs, table, DictSet(DictPop(tbl, old), pk, values))
        ELSE DictSet(recs, table, DictSet(tbl, pk, values))

ApplyRow(recs, columns, type, table, row) ==
    LET values == Zip(columns, RowValues(type, row))
        pk == get_primary_key(values)
        tbl == DictGet(recs, table, <<>>)
    IN  IF pk = None THEN recs
        ELSE IF type = "DeleteRowsEvent" THEN DictSet(recs, table, DictPop(tbl, pk))
        ELSE DictSet(recs, table, DictSet(tbl, pk, values))

RECURSIVE ApplyRows(_, _, _, _)
ApplyRows(recs, columns, ev, i) ==
    IF i > Len(ev.rows) THEN recs
    ELSE ApplyRows(ApplyRow(recs, columns, ev.type, ev.table, ev.rows[i]), columns, ev, i + 1)

\* handle_event run from its first to its last line
handle_event(recs, schemas, ev) ==
    ApplyRows(DictSetDefault(recs, ev.table), ColumnsOf(schemas, ev.table), ev, 1)

----------------------------------------------------------------------------
(* save_changes *)

\* DateTimeEncoder.default: a datetime is written as its isoformat() string
JsonValue(v) == IF v = Dt THEN DtIso ELSE v

JsonRecord(rec) == [c \in DOMAIN rec |-> JsonValue(rec[c])]

\* json.dump(arr, f, cls=DateTimeEncoder): the JSON array of the records
JsonDump(arr) == [i \in 1..Len(arr) |-> JsonRecord(arr[i])]

\* Content of <output_dir>/<table>.json
Absent == [kind |-> "absent", arr |-> <<>>]
Truncated == [kind |-> "partial", arr |-> <<>>]         \* empty or incomplete text
JsonFile(arr) == [kind |-> "json", arr |-> JsonDump(arr)]

\* open(path, "w"): the file exists and is empty
OpenForWrite(f) == Truncated

\* The for loop of save_changes: a dict iterator over table_records.items()
\* (n: size of the dict when the iterator was made, pos: entries yielded),
\* and the table and list bound by the current iteration.
NoIter == [state |-> "none", n |-> 0, pos |-> 0, tbl |-> "none", arr |-> <<>>]
NewIter(recs) == [state |-> "iter", n |-> Len(recs), pos |-> 0, tbl |-> "none", arr |-> <<>>]
EndIter(result) == [state |-> result, n |-> 0, pos |-> 0, tbl |-> "none", arr |-> <<>>]

----------------------------------------------------------------------------
(* check_mysql_configuration *)

\* The exit status of a process that has not exited
Running == -1

\* What the server answers to the preflight queries.
Servers ==
    [error : {"none", "connect", "query"},
     log_bin : {"ON", "OFF", "missing"},
     binlog_format : {"ROW", "STATEMENT", "missing"},
     slave : BOOLEAN, client : BOOLEAN]

PreflightResult(srv) ==
    IF srv.error # "none" THEN "mysql_error"
    ELSE IF srv.log_bin # "ON" THEN "log_bin"
    ELSE IF srv.binlog_format \notin {"ROW", "missing"} THEN "binlog_format"
    ELSE IF ~(srv.slave /\ srv.client) THEN "privileges"
    ELSE "ok"

check_mysql_configuration(srv) == PreflightResult(srv) = "ok"

\* start(): where the controller goes after the preflight check
StartIgnoreCheckMut(ok) == [pc |-> "load_connect", status |-> Running]

StartAfterCheck(ok) ==
    IF ok THEN [pc |-> "load_connect", status |-> Running]
    ELSE [pc |-> "exited", status |-> 1]

----------------------------------------------------------------------------
(* Initial state: a DatabaseMonitor just constructed *)

Init ==
    /\ pc = "start"
    /\ recording = TRUE
    /\ table_records = <<>>
    /\ table_schemas = <<>>
    /\ files = [t \in Tables |-> Absent]
    /\ stream = "none"
    /\ event = NoEvent
    /\ rowIdx = 0
    /\ it = [th \in Threads |-> NoIter]
    /\ pc2 = "idle"
    /\ pending = "none"
    /\ exitPath = "none"
    /\ preflight = "unchecked"
    /\ loadIdx = 0
    /\ sigint = FALSE
    /\ flushes = 0
    /\ pulled = 0
    /\ exitStatus = Running
    /\ hist = <<>>
    /\ prevStore = <<>>

Stopped == {"returned", "raised"}
Terminal == Stopped \cup {"exited"}

----------------------------------------------------------------------------
(* start, check_mysql_configuration, _load_table_schemas *)

Start ==
    /\ pc = "start"
    /\ \E srv \in Servers :
        /\ preflight' = PreflightResult(srv)
        /\ pc' = StartAfterCheck(check_mysql_configuration(srv)).pc
        /\ exitStatus' = StartAfterCheck(check_mysql_configuration(srv)).status
    /\ UNCHANGED <<recording, table_records, table_schemas, files, stream, event,
                   rowIdx, it, pc2, pending, exitPath, loadIdx, sigint, flushes,
                   pulled, hist, prevStore>>

\* pymysql.connect and the TABLES query; a pymysql.Error ends the load
LoadConnect ==
    /\ pc = "load_connect"
    /\ \E ok \in BOOLEAN : pc' = IF ok THEN "load_tables" ELSE "open"
    /\ UNCHANGED <<recording, table_records, table_schemas, files, stream, event,
                   rowIdx, it, pc2, pending, exitPath, preflight, loadIdx, sigint,
                   flushes, pulled, exitStatus, hist, prevStore>>

\* One iteration of `for (table_name,) in tables` with SHOW COLUMNS
\* succeeding (ok) or raising pymysql.Error
LoadTableStep(schemas, i, ok) ==
    IF ok THEN [pc |-> IF i + 1 < Len(DbTables) THEN "load_tables" ELSE "open",
                schemas |-> [t \in DOMAIN schemas \cup {DbTables[i + 1]} |->
                                IF t = DbTables[i + 1] THEN DbColumns(t) ELSE schemas[t]]]
    ELSE [pc |-> "open", schemas |-> schemas]

LoadTable ==
    /\ pc = "load_tables"
    /\ loadIdx < Len(DbTables)
    /\ \E ok \in BOOLEAN :
        /\ pc' = LoadTableStep(table_schemas, loadIdx, ok).pc
        /\ table_schemas' = LoadTableStep(table_schemas, loadIdx, ok).schemas
    /\ loadIdx' = loadIdx + 1
    /\ UNCHANGED <<recording, table_records, files, stream, event, rowIdx, it, pc2,
                   pending, exitPath, preflight, sigint, flushes, pulled, exitStatus,
                   hist, prevStore>>

----------------------------------------------------------------------------
(* _monitor: the try body *)

\* stream = BinLogStreamReader(...), or pymysql.Error from it
Open ==
    /\ pc = "open"
    /\ \E ok \in BOOLEAN :
        IF ok THEN stream' = "open" /\ pc' = "pull" /\ UNCHANGED exitPath
        ELSE pc' = "finally" /\ exitPath' = "mysql_error" /\ UNCHANGED stream
    /\ UNCHANGED <<recording, table_records, table_schemas, files, event, rowIdx, it,
                   pc2, pending, preflight, loadIdx, sigint, flushes, pulled,
                   exitStatus, hist, prevStore>>

\* `for binlog_event in stream`: the blocking read delivers an event
PullEvent ==
    /\ pc = "pull"
    /\ pulled < MaxEvents
    /\ \E e \in StreamEvents : event' = e
    /\ rowIdx' = 0
    /\ pulled' = pulled + 1
    /\ pc' = "check"
    /\ UNCHANGED <<recording, table_records, table_schemas, files, stream, it, pc2,
                   pending, exitPath, preflight, loadIdx, sigint, flushes, exitStatus,
                   hist, prevStore>>

\* the stream ends (StopIteration): the for loop falls through to finally
PullEnd ==
    /\ pc = "pull"
    /\ pc' = "finally"
    /\ exitPath' = "end_of_stream"
    /\ UNCHANGED <<recording, table_records, table_schemas, files, stream, event,
                   rowIdx, it, pc2, pending, preflight, loadIdx, sigint, flushes,
                   pulled, exitStatus, hist, prevStore>>

\* How each except clause of _monitor leaves: the next position of the
\* controller and the exception that keeps propagating
ExceptClause(exc) ==
    IF exc = "pymysql.Error" THEN [pc |-> "finally", pending |-> "none"]
    ELSE IF exc = "KeyboardInterrupt" THEN [pc |-> "stop_recording", pending |-> "none"]
    ELSE [pc |-> "finally", pending |-> exc]

\* the read raises: pymysql.Error is logged, any other Exception is logged
\* and re-raised
PullError ==
    /\ pc = "pull"
    /\ \E exc \in {"pymysql.Error", "Exception"} :
        /\ pc' = ExceptClause(exc).pc
        /\ pending' = ExceptClause(exc).pending
        /\ exitPath' = IF exc = "pymysql.Error" THEN "mysql_error" ELSE "unexpected"
    /\ UNCHANGED <<recording, table_records, table_schemas, files, stream, event,
                   rowIdx, it, pc2, preflight, loadIdx, sigint, flushes, pulled,
                   exitStatus, hist, prevStore>>

\* `if not self.recording: break`: where the controller goes next
CheckTargetNoBreakMut(rec) == "handle"

CheckTarget(rec) == IF rec THEN "handle" ELSE "finally"

CheckRecording ==
    /\ pc = "check"
    /\ pc' = CheckTarget(recording)
    /\ IF CheckTarget(recording) = "handle"
       THEN UNCHANGED <<event, exitPath>>
       ELSE event' = NoEvent /\ exitPath' = "break"
    /\ UNCHANGED <<recording, table_records, table_schemas, files, stream, rowIdx, it,
                   pc2, pending, preflight, loadIdx, sigint, flushes, pulled,
                   exitStatus, hist, prevStore>>

\* handle_event, lines 128-130
HandleBegin ==
    /\ pc = "handle"
    /\ table_records' = DictSetDefault(table_records, event.table)
    /\ pc' = "rows"
    /\ UNCHANGED <<recording, table_schemas, files, stream, event, rowIdx, it, pc2,
                   pending, exitPath, preflight, loadIdx, sigint, flushes, pulled,
                   exitStatus, hist, prevStore>>

\* handle_event, one iteration of `for row in event.rows` reading `row`;
\* after the last row the controller is back at the blocking read
HandleRowWith(row) ==
    /\ pc = "rows"
    /\ rowIdx < event.nrows
    /\ table_records' = ApplyRow(table_records, ColumnsOf(table_schemas, event.table),
                                 event.type, event.table, row)
    /\ IF rowIdx + 1 = event.nrows
       THEN pc' = "pull" /\ event' = NoEvent /\ rowIdx' = 0
       ELSE pc' = "rows" /\ rowIdx' = rowIdx + 1 /\ UNCHANGED event
    /\ UNCHANGED <<recording, table_schemas, files, stream, it, pc2, pending, exitPath,
                   preflight, loadIdx, sigint, flushes, pulled, exitStatus, hist,
                   prevStore>>

HandleRow == \E row \in StreamRows(event.type) : HandleRowWith(row)

TryBody == {"open", "pull", "check", "handle", "rows"}

\* KeyboardInterrupt is raised in the controller thread between two
\* bytecodes of the try body: `except KeyboardInterrupt` runs next
Interrupt ==
    /\ pc \in TryBody
    /\ ~sigint
    /\ sigint' = TRUE
    /\ pc' = ExceptClause("KeyboardInterrupt").pc
    /\ pending' = ExceptClause("KeyboardInterrupt").pending
    /\ exitPath' = "interrupt"
    /\ UNCHANGED <<recording, table_records, table_schemas, files, stream, event,
                   rowIdx, it, pc2, preflight, loadIdx, flushes, pulled, exitStatus,
                   hist, prevStore>>

----------------------------------------------------------------------------
(* stop_recording and save_changes, run by thread th *)

InSave(th) == IF th = "main" THEN pc = "save" ELSE pc2 = "save"

\* stop_recording: clears the flag, then save_changes starts its loop
StopRecording(th) ==
    /\ recording' = FALSE
    /\ flushes' = flushes + 1
    /\ it' = [it EXCEPT ![th] = NewIter(table_records)]

StopRecordingMain ==
    /\ pc = "stop_recording"
    /\ StopRecording("main")
    /\ pc' = "save"
    /\ event' = NoEvent
    /\ rowIdx' = 0
    /\ UNCHANGED <<table_records, table_schemas, files, stream, pc2, pending, exitPath,
                   preflight, loadIdx, sigint, pulled, exitStatus, hist, prevStore>>

\* another execution context calls monitor.stop_recording()
StopRecordingOther ==
    /\ pc2 = "idle"
    /\ pc \notin Terminal
    /\ StopRecording("other")
    /\ pc2' = "save"
    /\ UNCHANGED <<pc, table_records, table_schemas, files, stream, event, rowIdx,
                   pending, exitPath, preflight, loadIdx, sigint, pulled, exitStatus,
                   hist, prevStore>>

\* save_changes returns (result = "saved") or raises in thread th
SaveEnds(th, result, exc) ==
    /\ it' = [it EXCEPT ![th] = EndIter(result)]
    /\ IF th = "main"
       THEN pc' = "finally" /\ pending' = exc /\ UNCHANGED pc2
       ELSE pc2' = (IF exc = "none" THEN "done" ELSE "failed") /\ UNCHANGED <<pc, pending>>

\* What json.dump leaves in a file: the array, or a mix when another writer
\* wrote the same file since this writer truncated it
DumpOutcomes(f, arr) ==
    IF f.kind = "json" /\ f # JsonFile(arr) THEN {JsonFile(arr), Truncated}
    ELSE {JsonFile(arr)}

\* `for table, records in self.table_records.items()`: the next entry, then
\* arr = list(records.values()) and open(path, "w")
SaveNext(th) ==
    /\ InSave(th)
    /\ it[th].state = "iter"
    /\ IF Len(table_records) # it[th].n
       THEN \* RuntimeError: dictionary changed size during iteration
            SaveEnds(th, "raised", "RuntimeError") /\ UNCHANGED files
       ELSE IF it[th].pos = it[th].n
       THEN \* the loop is over: "Snapshot saved."
            SaveEnds(th, "saved", "none") /\ UNCHANGED files
       ELSE LET entry == table_records[it[th].pos + 1] IN
            /\ it' = [it EXCEPT ![th] = [state |-> "open", n |-> it[th].n,
                                         pos |-> it[th].pos + 1, tbl |-> entry.k,
                                         arr |-> DictValues(entry.v)]]
            /\ files' = [files EXCEPT ![entry.k] = OpenForWrite(files[entry.k])]
            /\ UNCHANGED <<pc, pc2, pending>>
    /\ UNCHANGED <<recording, table_records, table_schemas, stream, event, rowIdx,
                   exitPath, preflight, loadIdx, sigint, flushes, pulled, exitStatus,
                   hist, prevStore>>

\* open(path, "w") raises OSError: save_changes raises, the file is as it was
SaveOpenFails(th) ==
    /\ InSave(th)
    /\ it[th].state = "iter"
    /\ Len(table_records) = it[th].n
    /\ it[th].pos < it[th].n
    /\ SaveEnds(th, "raised", "OSError")
    /\ UNCHANGED <<recording, table_records, table_schemas, files, stream, event,
                   rowIdx, exitPath, preflight, loadIdx, sigint, flushes, pulled,
                   exitStatus, hist, prevStore>>

\* json.dump(arr, f, ...) and the close of the with block
SaveDump(th) ==
    /\ InSave(th)
    /\ it[th].state = "open"
    /\ \E f \in DumpOutcomes(files[it[th].tbl], it[th].arr) :
        files' = [files EXCEPT ![it[th].tbl] = f]
    /\ it' = [it EXCEPT ![th] = [state |-> "iter", n |-> it[th].n, pos |-> it[th].pos,
                                 tbl |-> "none", arr |-> <<>>]]
    /\ UNCHANGED <<pc, recording, table_records, table_schemas, stream, event, rowIdx,
                   pc2, pending, exitPath, preflight, loadIdx, sigint, flushes, pulled,
                   exitStatus, hist, prevStore>>

\* json.dump raises part-way (write error): the file keeps what was written
SaveDumpFails(th) ==
    /\ InSave(th)
    /\ it[th].state = "open"
    /\ files' = [files EXCEPT ![it[th].tbl] = Truncated]
    /\ SaveEnds(th, "raised", "OSError")
    /\ UNCHANGED <<recording, table_records, table_schemas, stream, event, rowIdx,
                   exitPath, preflight, loadIdx, sigint, flushes, pulled, exitStatus,
                   hist, prevStore>>

SaveNextMain == SaveNext("main")
SaveNextOther == SaveNext("other")
SaveOpenFailsMain == SaveOpenFails("main")
SaveOpenFailsOther == SaveOpenFails("other")
SaveDumpMain == SaveDump("main")
SaveDumpOther == SaveDump("other")
SaveDumpFailsMain == SaveDumpFails("main")
SaveDumpFailsOther == SaveDumpFails("other")

----------------------------------------------------------------------------
(* _monitor: the finally clause, and the end of the process *)

\* `if stream: stream.close()`
FinallyStreamSkipOnRaiseMut(s, exc) == IF s = "open" /\ exc = "none" THEN "closed" ELSE s

FinallyStream(s, exc) == IF s = "open" THEN "closed" ELSE s

Finally ==
    /\ pc = "finally"
    /\ stream' = FinallyStream(stream, pending)
    /\ pc' = IF pending = "none" THEN "returned" ELSE "raised"
    /\ exitStatus' = IF pending = "none" THEN 0 ELSE 1
    /\ UNCHANGED <<recording, table_records, table_schemas, files, event, rowIdx, it,
                   pc2, pending, exitPath, preflight, loadIdx, sigint, flushes, pulled,
                   hist, prevStore>>

Next ==
    \/ Start
    \/ LoadConnect
    \/ LoadTable
    \/ Open
    \/ PullEvent
    \/ PullEnd
    \/ PullError
    \/ CheckRecording
    \/ HandleBegin
    \/ HandleRow
    \/ Interrupt
    \/ StopRecordingMain
    \/ StopRecordingOther
    \/ SaveNextMain
    \/ SaveNextOther
    \/ SaveOpenFailsMain
    \/ SaveOpenFailsOther
    \/ SaveDumpMain
    \/ SaveDumpOther
    \/ SaveDumpFailsMain
    \/ SaveDumpFailsOther
    \/ Finally

Spec == Init /\ [][Next]_vars

\* The steps the controller takes by itself: every statement of start() and
\* _monitor that does not wait for the event source
ControllerStep ==
    \/ Start
    \/ LoadConnect
    \/ LoadTable
    \/ Open
    \/ CheckRecording
    \/ HandleBegin
    \/ HandleRow
    \/ StopRecordingMain
    \/ SaveNextMain
    \/ SaveDumpMain
    \/ Finally

\* The steps of the context that called stop_recording(), once inside it
CallerStep == SaveNextOther \/ SaveDumpOther

\* Both threads keep running while they have a statement to execute. The
\* event source, the signal, the call of stop_recording() and the I/O
\* failures are the environment's: nothing makes them happen.
SpecLive == Init /\ [][Next]_vars /\ WF_vars(ControllerStep) /\ WF_vars(CallerStep)

----------------------------------------------------------------------------
(* The fold specification: a started monitor applies whole events, one    *)
(* after the other, with nothing else running.                            *)

\* The schemas _load_table_schemas leaves behind when its loop ends after
\* n tables (all of them, or a SHOW COLUMNS failed after the first n)
SchemasAfter(n) == [t \in {DbTables[i] : i \in 1..n} |-> DbColumns(t)]

\* The column list loaded for a table that has no id column
IdLessColumns == <<"v">>

\* The schemas the run loop can start with: what the load leaves behind, or
\* all the tables loaded with the last one having no id column
FoldSchemas ==
    {SchemasAfter(n) : n \in 1..Len(DbTables)}
        \cup {[t \in Tables |-> IF t = DbTables[Len(DbTables)] THEN IdLessColumns
                                ELSE DbColumns(t)]}

RECURSIVE TotalRows(_)
TotalRows(h) == IF h = <<>> THEN 0 ELSE Len(h[1].rows) + TotalRows(Tail(h))

InitFold ==
    /\ pc = "pull"
    /\ recording = TRUE
    /\ table_records = <<>>
    /\ table_schemas \in FoldSchemas
    /\ files = [t \in Tables |-> Absent]
    /\ stream = "open"
    /\ event = NoEvent
    /\ rowIdx = 0
    /\ it = [th \in Threads |-> NoIter]
    /\ pc2 = "idle"
    /\ pending = "none"
    /\ exitPath = "none"
    /\ preflight = "ok"
    /\ loadIdx = Len(DbTables)
    /\ sigint = FALSE
    /\ flushes = 0
    /\ pulled = 0
    /\ exitStatus = Running
    /\ hist = <<>>
    /\ prevStore = <<>>

\* One iteration of the run loop: an event is pulled and handle_event runs
\* on it from start to end
HandleEvent ==
    /\ pc = "pull"
    /\ recording
    /\ \E n \in 1..MaxRows :
        /\ TotalRows(hist) + n <= MaxHist
        /\ \E e \in EventsOfLen(n) :
            /\ table_records' = handle_event(table_records, table_schemas, e)
            /\ hist' = Append(hist, e)
    /\ prevStore' = table_records
    /\ UNCHANGED <<pc, recording, table_schemas, files, stream, event, rowIdx, it, pc2,
                   pending, exitPath, preflight, loadIdx, sigint, flushes, pulled,
                   exitStatus>>

NextFold == HandleEvent

SpecFold == InitFold /\ [][NextFold]_vars

----------------------------------------------------------------------------
(* Claims *)

\* The row operations of a history of events, in arrival order
RECURSIVE RowOps(_)
RowOps(h) ==
    IF h = <<>> THEN <<>>
    ELSE LET e == h[Len(h)]
         IN  RowOps(SubSeq(h, 1, Len(h) - 1)) \o
             [i \in 1..Len(e.rows) |-> [type |-> e.type, table |-> e.table, row |-> e.rows[i]]]

OpRecord(op) == Zip(ColumnsOf(table_schemas, op.table), RowValues(op.type, op.row))
OpKey(op) == get_primary_key(OpRecord(op))

\* The record stored for key k of table t, as a set of at most one record
Stored(t, k) ==
    LET tbl == DictGet(table_records, t, <<>>)
    IN  IF k \in DictKeys(tbl) THEN {DictGet(tbl, k, <<>>)} ELSE {}

\* Last write wins: the record of the last insert/update of (t, k) among
\* the row operations ops, nothing if there is none or a delete came after
LastWrite(ops, t, k) ==
    LET on == {i \in 1..Len(ops) : ops[i].table = t /\ OpKey(ops[i]) = k}
    IN  IF on = {} THEN {}
        ELSE LET last == CHOOSE i \in on : \A j \in on : j <= i
             IN  IF ops[last].type = "DeleteRowsEvent" THEN {} ELSE {OpRecord(ops[last])}

AllKeyed(ops) == \A i \in 1..Len(ops) : OpKey(ops[i]) # None

\* C1: after any sequence of events whose rows all resolve a non-null id,
\* applied in arrival order by handle_event, table_records holds for every
\* table and key the record of the last insert/update of that key, and
\* nothing for a key whose last operation was a delete or that was never
\* inserted or updated.
C1_FoldCorrect ==
    LET ops == RowOps(hist) IN
    AllKeyed(ops) =>
        \A t \in Tables :
            /\ \A k \in Ids : Stored(t, k) = LastWrite(ops, t, k)
            /\ DictKeys(DictGet(table_records, t, <<>>)) \subseteq Ids

\* An insert, a delete and an update of the same key have been folded.
C1_Witness ==
    LET ops == RowOps(hist)
    IN  /\ Len(ops) = 3
        /\ AllKeyed(ops)
        /\ ops[1].type = "WriteRowsEvent"
        /\ ops[2].type = "DeleteRowsEvent"
        /\ ops[3].type = "UpdateRowsEvent"
        /\ ops[1].table = ops[2].table /\ ops[2].table = ops[3].table
        /\ OpKey(ops[1]) = OpKey(ops[2]) /\ OpKey(ops[2]) = OpKey(ops[3])
        /\ Stored(ops[3].table, OpKey(ops[3])) = {OpRecord(ops[3])}

\* handle_event is part-way through the rows of an event
PartWay == event # NoEvent /\ 0 < rowIdx /\ rowIdx < event.nrows

\* C2: save_changes never starts while handle_event is part-way through an
\* event: every step that starts a flush is taken from a state in which no
\* event has some rows gone through and others still to go.
C2_FlushAtBoundary == [][flushes' > flushes => ~PartWay]_vars

\* C3: a run that entered Streaming and left it by a stop signal or by the
\* end of the stream has flushed by the time the controller is Stopped.
C3_FlushBeforeStopped ==
    (pc \in Stopped /\ stream # "none"
        /\ exitPath \in {"interrupt", "break", "end_of_stream"}) => flushes >= 1

\* C4: a run that left Streaming on a read error (pymysql.Error) has flushed
\* by the time the controller is Stopped.
C4_FlushOnReadError ==
    (pc \in Stopped /\ stream # "none" /\ exitPath = "mysql_error") => flushes >= 1

\* C5: a run that was Streaming and was stopped (by KeyboardInterrupt, by a
\* call of stop_recording from another context, or by both) has run
\* save_changes exactly once by the time the controller is Stopped.
C5_ExactlyOneFlush ==
    (pc \in Stopped /\ stream # "none" /\ (sigint \/ pc2 # "idle")) => flushes = 1

\* Every table of the store has its artifact, holding the JSON array of the
\* table's current records
SnapshotMatches(recs, fs) ==
    \A i \in 1..Len(recs) : fs[recs[i].k] = JsonFile(DictValues(recs[i].v))

\* C6: when save_changes completes, every table in table_records has the
\* artifact <table>.json whose content is exactly the list of the table's
\* current record values (an empty array for a table without records).
\* Stated for the runs with a single flush, where no other save_changes
\* writes the files.
C6_SnapshotComplete ==
    [][\A th \in Threads :
          (it[th].state = "iter" /\ it'[th].state = "saved" /\ flushes = 1)
              => SnapshotMatches(table_records', files')]_vars

\* C7: a row whose resolved key is null or missing changes nothing: no step
\* of the row loop that changes table_records is the step of such a row.
C7_UnkeyableSkip ==
    [][(pc = "rows" /\ table_records' # table_records) =>
          \A row \in StreamRows(event.type) :
              get_primary_key(Zip(ColumnsOf(table_schemas, event.table),
                                  RowValues(event.type, row))) = None
                  => ~HandleRowWith(row)]_vars

\* Rows of a table whose schema was not loaded are being skipped while
\* another table holds a record.
C7_Witness ==
    /\ pc = "rows" /\ rowIdx = 1
    /\ event.table \notin DOMAIN table_schemas
    /\ DictGet(table_records, event.table, <<"x">>) = <<>>
    /\ \E t \in Tables : DictGet(table_records, t, <<>>) # <<>>

\* The keys the rows of event e resolve to
EventKeys(e) ==
    {get_primary_key(Zip(ColumnsOf(table_schemas, e.table), RowValues(e.type, e.rows[i]))) :
        i \in 1..Len(e.rows)}

\* C8: a delete event applied a second time in a row leaves table_records
\* as the first application left it, and a delete event none of whose keys
\* is in the table changes no table's records.
C8_IdempotentDelete ==
    LET n == Len(hist) IN
    /\ (n >= 2 /\ hist[n].type = "DeleteRowsEvent" /\ hist[n] = hist[n - 1])
          => table_records = prevStore
    /\ (n >= 1 /\ hist[n].type = "DeleteRowsEvent"
          /\ EventKeys(hist[n]) \cap DictKeys(DictGet(prevStore, hist[n].table, <<>>)) = {})
          => table_records = DictSetDefault(prevStore, hist[n].table)

\* A key was inserted, deleted, and deleted again by the same event.
C8_Witness ==
    /\ Len(hist) = 3
    /\ hist[1].type = "WriteRowsEvent"
    /\ hist[2].type = "DeleteRowsEvent"
    /\ hist[3] = hist[2]
    /\ hist[1].table = hist[2].table
    /\ EventKeys(hist[1]) = EventKeys(hist[2])
    /\ None \notin EventKeys(hist[1])

\* C9: once _monitor has returned or raised, the stream it opened is closed.
C9_StreamClosed == pc \in Stopped => stream # "open"

\* The flush inside stop_recording failed and the exception left _monitor
\* with the stream closed.
C9_Witness ==
    /\ pc = "raised" /\ exitPath = "interrupt" /\ pending = "OSError"
    /\ stream = "closed"

\* C10: after a failed preflight check start() has exited with status 1,
\* no schema was loaded, no stream opened and no event pulled.
C10_FatalPrecondition ==
    preflight \notin {"unchecked", "ok"} =>
        /\ pc = "exited" /\ exitStatus = 1
        /\ table_schemas = <<>> /\ loadIdx = 0
        /\ stream = "none" /\ pulled = 0 /\ table_records = <<>>

\* The preflight check failed on missing privileges and the process exited.
C10_Witness == preflight = "privileges" /\ pc = "exited" /\ exitStatus = 1

\* The record stored for key k of table t in the store recs
StoredIn(recs, t, k) ==
    LET tbl == DictGet(recs, t, <<>>)
    IN  IF k \in DictKeys(tbl) THEN {DictGet(tbl, k, <<>>)} ELSE {}

\* C19: an update row is keyed by the id of its after image alone: wherever
\* the controller is about to apply a row of an update event, whatever the
\* row's before image is, applying it stores the after record under the
\* after id and leaves the entry under a different before id as it was.
C19_UpdateKeyedByAfter ==
    (pc = "rows" /\ event.type = "UpdateRowsEvent") =>
        \A row \in StreamRows("UpdateRowsEvent") :
            LET columns == ColumnsOf(table_schemas, event.table)
                after == Zip(columns, row.after_values)
                a == get_primary_key(Zip(columns, row.before_values))
                b == get_primary_key(after)
                recs == ApplyRow(table_records, columns, event.type, event.table, row)
            IN  b # None =>
                    /\ StoredIn(recs, event.table, b) = {after}
                    /\ a # b => StoredIn(recs, event.table, a)
                                    = StoredIn(table_records, event.table, a)

\* The first row of an update event has been applied and its table holds
\* two entries: the one the update wrote and another one left in place.
C19_Witness ==
    /\ pc = "rows" /\ event.type = "UpdateRowsEvent" /\ rowIdx = 1
    /\ pulled = 2
    /\ Len(DictGet(table_records, event.table, <<>>)) = 2

\* save_changes raises in thread th on an I/O failure: open() or json.dump
\* raised OSError (the other raise is the RuntimeError of a resized dict)
IoFailure(th) ==
    /\ it'[th].state = "raised"
    /\ \/ it[th].state = "open"
       \/ it[th].state = "iter" /\ Len(table_records) = it[th].n

\* The number of tables whose write this flush has attempted when it fails
Attempted(th) == IF it[th].state = "open" THEN it[th].pos ELSE it[th].pos + 1

\* C11: an I/O failure on one table's artifact does not keep the flush from
\* attempting the other tables: when a flush ends on an I/O failure, the
\* write of every table of the store has been attempted.
C11_FailureIsolated ==
    [][\A th \in Threads : IoFailure(th) => Attempted(th) = it[th].n]_vars

\* C12: artifact writes are all-or-nothing: at every point each table's
\* artifact is absent or holds a complete array, never an empty or
\* truncated file.
C12_AllOrNothing == \A t \in Tables : files[t].kind # "partial"

\* C13: a stop requested with stop_recording() while the run loop is blocked
\* in the read of the next event leads to _monitor having left the loop with
\* the stream closed, whether or not the source delivers anything more.
C13_StopLiveness == (pc = "pull" /\ ~recording) ~> (pc \in Stopped /\ stream = "closed")

\* _load_table_schemas has returned and the controller goes on to the stream
LoadOver == pc \notin {"start", "load_connect", "load_tables", "exited"}

\* C14: a column query that fails for one table does not keep the schemas of
\* the other tables from being loaded: once the load is over, every table
\* other than the last one queried (the only one whose query can have
\* failed) has its schema, also those listed after it.
C14_SchemaLoadIsolated ==
    (LoadOver /\ loadIdx >= 1) =>
        \A j \in 1..Len(DbTables) : j # loadIdx => DbTables[j] \in DOMAIN table_schemas

\* Table t has no schema entry, or one whose column list has no "id"
NoIdColumn(t) ==
    \/ t \notin DOMAIN table_schemas
    \/ \A i \in 1..Len(table_schemas[t]) : table_schemas[t][i] # "id"

\* C15: a table with no schema entry, or with a column list without "id",
\* keeps an empty key-mapping whatever events were handled for it.
C15_MissingSchemaSkips ==
    \A t \in Tables : NoIdColumn(t) => DictGet(table_records, t, <<>>) = <<>>

\* An insert, an update and a delete were handled for table t, which is
\* registered with an empty mapping
AllSkipped(t) ==
    /\ Len(hist) = 3
    /\ \A i \in 1..3 : hist[i].table = t
    /\ {hist[i].type : i \in 1..3} = EventTypes
    /\ table_records = <<[k |-> t, v |-> <<>>]>>

\* All three kinds of event were skipped for a table with no schema entry.
C15_Witness == \E t \in Tables : t \notin DOMAIN table_schemas /\ AllSkipped(t)

\* All three kinds of event were skipped for a table whose column list has
\* no "id".
C15_WitnessIdLess ==
    \E t \in Tables : t \in DOMAIN table_schemas /\ NoIdColumn(t) /\ AllSkipped(t)

\* C16: handle_event on an event of table T changes nothing but T's entry:
\* while the controller is inside handle_event, every step leaves the entry
\* of every other table (present or not, and its mapping) and table_schemas
\* as they were.
C16_TableScoped ==
    [][(pc \in {"handle", "rows"}) =>
          (/\ table_schemas' = table_schemas
           /\ \A t \in Tables \ {event.table} :
               /\ (t \in DictKeys(table_records')) = (t \in DictKeys(table_records))
               /\ DictGet(table_records', t, <<>>) = DictGet(table_records, t, <<>>))
      ]_vars

\* A row of an event has been stored for one table while another table
\* holds records.
C16_Witness ==
    /\ pc = "rows" /\ rowIdx = 1 /\ pulled = 2
    /\ DictGet(table_records, event.table, <<>>) # <<>>
    /\ \E t \in Tables \ {event.table} : DictGet(table_records, t, <<>>) # <<>>

\* C17: every key of every table's mapping is non-null and is the "id" of
\* the record stored under it.
C17_KeyMatchesId ==
    \A i \in 1..Len(table_records) :
        \A j \in 1..Len(table_records[i].v) :
            LET entry == table_records[i].v[j]
            IN  /\ entry.k # None
                /\ "id" \in DOMAIN entry.v
                /\ entry.v["id"] = entry.k

\* Two tables are registered, one holds two records and the other one.
C17_Witness ==
    /\ pc = "pull" /\ Len(table_records) = 2
    /\ \E i, j \in 1..2 : Len(table_records[i].v) = 2 /\ Len(table_records[j].v) = 1

\* C18: handle_event registers the table of every event it processes,
\* whatever the event's type and whether or not a row is stored; a table
\* enters table_records only that way and never leaves it; and a flush that
\* runs to its end has left an artifact for every registered table.
C18_TablesRegistered ==
    [][/\ (pc = "handle" /\ pc' = "rows") => event.table \in DictKeys(table_records')
       /\ DictKeys(table_records) \subseteq DictKeys(table_records')
       /\ DictKeys(table_records') \subseteq
              DictKeys(table_records) \cup (IF pc = "handle" THEN {event.table} ELSE {})
       /\ \A th \in Threads :
              (it[th].state # "saved" /\ it'[th].state = "saved") =>
                  \A t \in DictKeys(table_records') : files'[t].kind # "absent"
      ]_vars

\* Two tables are registered, one of them with an empty mapping, and the
\* flush of stop_recording has written an artifact for both, an empty array
\* for the empty one.
C18_Witness ==
    /\ it["main"].state = "saved" /\ flushes = 1
    /\ Len(table_records) = 2
    /\ \E t, u \in DictKeys(table_records) :
        /\ DictGet(table_records, t, <<"x">>) = <<>>
        /\ files[t] = JsonFile(<<>>)
        /\ DictGet(table_records, u, <<>>) # <<>>
        /\ files[u].kind = "json"

\* C20: the recording flag never goes back to True; an event that reaches
\* the flag check with the flag False ends the loop there (break, or the
\* interrupt handler); and with the flag False the store changes only by
\* the rows of an event that was already inside handle_event.
C20_StopIsFinal ==
    [][/\ ~recording => ~recording'
       /\ (pc = "check" /\ ~recording /\ pc' # pc) => pc' \in {"finally", "stop_recording"}
       /\ (~recording /\ pc \notin {"handle", "rows"}) => table_records' = table_records
      ]_vars

\* stop_recording() was called from outside and has finished; the second
\* event was pulled after that and the loop left by `break` with the first
\* event's record still all there is in the store.
C20_Witness ==
    /\ pc = "returned" /\ exitPath = "break" /\ pc2 = "done"
    /\ pulled = 2 /\ ~recording
    /\ Len(table_records) = 1 /\ Len(table_records[1].v) = 1

====
